---- MODULE Spec2Model ----
(***************************************************************************)
(* The reducer of the IAM terminal browser (src/main.go, model.Update) as  *)
(* a state machine.  One action per message the reducer handles: key       *)
(* messages typed by the operator and completion messages delivered by the *)
(* background commands (tea.Cmd) that earlier reducer steps emitted.       *)
(*                                                                         *)
(* Pointers.  The list widgets hold *RoleItem / *PolicyItem; selectedRole  *)
(* and selectedPolicy alias one of these objects.  A reference is modelled *)
(* as "nil", as "list" (the object is item idx of the widget's current     *)
(* items) or as "detached" (the widget's items were replaced after the     *)
(* reference was taken; the object lives on only through the reference).   *)
(*                                                                         *)
(* The bubbles list widget is a library: it is modelled by its items and   *)
(* its 0-based index; SelectedItem() is nil when the index is outside the  *)
(* items; filtering and the spinner are not modelled.  The viewport's      *)
(* scroll offset and size are read by no guard of the reducer and are left *)
(* out.                                                                    *)
(***************************************************************************)
EXTENDS Integers, Sequences, FiniteSets, Bags, TLC

\* ------------------------------------------------------------- bounds
\* Most commands that may be outstanding at once (key actions that would
\* emit beyond it are not taken).
MaxInflight == 3
\* Longest session explored: the number of messages the reducer processes.
MaxSteps == 11
\* Longest search query typed (characters beyond it are not typed).
MaxQuery == 2
\* Longest percent-encoded text decoded, longest plain text encoded and
\* decoded again.
MaxEncoded == 4
MaxPlain == 3
\* Longest text wrapped and the largest wrap width.
MaxText == 5
MaxWidth == 3
\* Longest text colourised.
MaxJson == 6
\* Messages processed on the document screen with the scrolling keys.
ViewSteps == 7
\* Messages processed in the runs with window size messages and in the runs
\* in which every command completes.
ShortSteps == 7

\* ------------------------------------------------------------- inputs
\* AWS_PROFILE of the process environment, "default" when unset.
EnvProfile == "default"

\* Printable single-character keys bound to no command.
Runes == {"a", "A"}

\* ------------------------------------------------------------- values
Nil == [ref |-> "nil"]
InList_Nil(i) == [ref |-> "nil"]
InList(i) == [ref |-> "list", idx |-> i]
Detached(o) == [ref |-> "detached", obj |-> o]

EmptyDoc == [arn |-> "", text |-> ""]

RoleItem(name) == [roleName |-> name, policies |-> <<>>, policiesLoaded |-> FALSE]

PolicyItem(arn) == [policyArn |-> arn, policyDocument |-> EmptyDoc, documentLoaded |-> FALSE]

\* No function of the program is being applied on its own.
Idle == [fn |-> "none"]

NoStatus == <<>>
NoErr == <<>>

\* ------------------------------------------------------------- commands
loadCurrentProfileCmd == [cmd |-> "loadCurrentProfile", arg |-> ""]
loadIAMRolesCmd(profile) == [cmd |-> "loadIAMRoles", arg |-> profile]
loadUserArnCmd(profile) == [cmd |-> "loadUserArn", arg |-> profile]
loadRolePoliciesCmd(roleName) == [cmd |-> "loadRolePolicies", arg |-> roleName]
loadPolicyDocumentCmd(policyArn) == [cmd |-> "loadPolicyDocument", arg |-> policyArn]
loadAWSProfilesCmd == [cmd |-> "loadAWSProfiles", arg |-> ""]

\* What the provider may answer.
RolePayloads == {<<>>, <<RoleItem("r1")>>, <<RoleItem("r1"), RoleItem("r2")>>}
PolicyPayloads == {<<>>, <<PolicyItem("a1")>>, <<PolicyItem("a1"), PolicyItem("a2")>>}
RawDocuments(arn) == {[arn |-> arn, json |-> TRUE], [arn |-> arn, json |-> FALSE]}
ProfilePayloads == {<<>>, <<"default", "dev">>}

VARIABLES
    currentScreen, loading, err, statusMsg,
    rolesList, rolesIndex, selectedRole,
    policiesList, policiesIndex, selectedPolicy, policyDocument,
    currentProfile, availableProfiles, profilesList, profilesIndex, userArn,
    searchMode, searchQuery, searchResults, currentMatch,
    inflight, lastMsg, exit, steps,
    switchedTo, docLoadedFor,
    yOffset, viewHeight, width, height, listHeight, call

vars == <<currentScreen, loading, err, statusMsg,
          rolesList, rolesIndex, selectedRole,
          policiesList, policiesIndex, selectedPolicy, policyDocument,
          currentProfile, availableProfiles, profilesList, profilesIndex, userArn,
          searchMode, searchQuery, searchResults, currentMatch,
          inflight, lastMsg, exit, steps,
          switchedTo, docLoadedFor,
          yOffset, viewHeight, width, height, listHeight, call>>

navVars == <<currentScreen, loading, err, statusMsg>>
roleVars == <<rolesList, rolesIndex, selectedRole>>
policyVars == <<policiesList, policiesIndex, selectedPolicy, policyDocument>>
profileVars == <<currentProfile, availableProfiles, profilesList, profilesIndex, userArn>>
searchVars == <<searchMode, searchQuery, searchResults, currentMatch>>

\* History of the session, read by no handler: the profile of the latest
\* Profiles select ("" before the first), and the ARNs whose document was
\* loaded into the policy it was fetched for since then.
historyVars == <<switchedTo, docLoadedFor>>

\* The document viewport (m.policyView): the index of its first visible line
\* and its height in lines.
viewVars == <<yOffset, viewHeight, width, height, listHeight>>

\* The sizes a window size message sets: the window (m.width, m.height), the
\* height of the viewport and the height of each of the three lists.
sizeVars == <<viewHeight, width, height, listHeight>>

\* The three list widgets.
ListNames == {"roles", "policies", "profiles"}

\* headerHeight + footerHeight
verticalMarginHeight == 9

\* No window size message has arrived: the widgets have the sizes they were
\* constructed with.
Unsized ==
    /\ width = 0
    /\ height = 0
    /\ viewHeight = 0
    /\ listHeight = [l \in ListNames |-> 0]

\* The sizes after a window size message of w columns and h rows.
SizedTo(w, h) ==
    /\ width = w
    /\ height = h
    /\ viewHeight = h - verticalMarginHeight
    /\ listHeight = [l \in ListNames |-> h - verticalMarginHeight]

\* ------------------------------------------------------------- helpers
\* The object a non-nil reference points to.
Deref(r, items) == IF r.ref = "list" THEN items[r.idx + 1] ELSE r.obj

\* The reference after the widget's items were replaced: the old object is
\* no longer an item of the widget.
Detach(r, items) == IF r.ref = "list" THEN Detached(items[r.idx + 1]) ELSE r

\* list.Model.SelectedItem() # nil
HasSelectedItem(items, index) == index < Len(items)

\* list.Model.Update on the up / down keys.
CursorUp(items, index) == IF index > 0 THEN index - 1 ELSE index

CursorDown(items, index) == IF index + 1 < Len(items) THEN index + 1 ELSE index

Range(s) == {s[i] : i \in DOMAIN s}

BagOfSeq(s) == [c \in Range(s) |-> Cardinality({i \in DOMAIN s : s[i] = c})]

\* json.Unmarshal, json.MarshalIndent and colorizeJSON applied to a fetched
\* document; the text keeps the ARN it was fetched for.
FormatDocument(raw) ==
    IF raw.json THEN [arn |-> raw.arn, text |-> "colorized"]
    ELSE [arn |-> raw.arn, text |-> "Error parsing JSON"]

\* The lines of a displayed document (strings.Split(doc, "\n")), each a
\* sequence of characters; "ansi" stands for one colour escape sequence.
Lines(doc) ==
    CASE doc.text = "colorized" -> << <<"{">>,
                                      <<"ansi", "A", "ansi", ":", "a", "ansi", "a">>,
                                      <<"ansi", "b", "ansi", ":", "A">>,
                                      <<"a", "}">> >>
      [] doc.text = "Error parsing JSON" -> << <<"E", "a">> >>
      [] OTHER -> << <<>> >>

stripAnsiCodes(line) == SelectSeq(line, LAMBDA ch : ch # "ansi")

\* strings.ToLower on the characters in use.
ToLower(str) == [i \in DOMAIN str |-> CASE str[i] = "A" -> "a"
                                         [] str[i] = "E" -> "e"
                                         [] OTHER -> str[i]]

\* strings.Contains
Contains(str, sub) ==
    \E i \in 0..(Len(str) - Len(sub)) : SubSeq(str, i + 1, i + Len(sub)) = sub

\* The match list performSearch computes: the 0-based indices of the lines
\* that contain the query, in increasing order.
RECURSIVE MatchesFrom_OneBased(_, _, _)
MatchesFrom_OneBased(lines, query, i) ==
    IF i > Len(lines) THEN <<>>
    ELSE (IF Contains(ToLower(stripAnsiCodes(lines[i])), query) THEN <<i>> ELSE <<>>)
         \o MatchesFrom_OneBased(lines, query, i + 1)

RECURSIVE MatchesFrom(_, _, _)
MatchesFrom(lines, query, i) ==
    IF i > Len(lines) THEN <<>>
    ELSE (IF Contains(ToLower(stripAnsiCodes(lines[i])), query) THEN <<i - 1>> ELSE <<>>)
         \o MatchesFrom(lines, query, i + 1)

\* viewport.Model.SetContent (bubbles): the offset is kept unless it lies
\* beyond the last line of the new content, and then the view goes to the
\* bottom, max(0, lines - rows).
SetContent(doc, offset, rows) ==
    IF offset > Len(Lines(doc)) - 1
    THEN (IF Len(Lines(doc)) - rows > 0 THEN Len(Lines(doc)) - rows ELSE 0)
    ELSE offset

\* if len(m.searchResults) > 0 { m.policyView.YOffset = m.searchResults[0] }
FirstMatchOffset_Stay(results, offset) == offset

FirstMatchOffset(results, offset) == IF Len(results) > 0 THEN results[1] ELSE offset

\* m.currentMatch = (m.currentMatch + 1) % len(m.searchResults)
NextIndex_NoWrap(i, n) == IF i + 1 < n THEN i + 1 ELSE i

NextIndex(i, n) == (i + 1) % n

\* m.currentMatch = (m.currentMatch - 1 + len(m.searchResults)) % len(m.searchResults)
PrevIndex(i, n) == (i - 1 + n) % n

\* ------------------------------------------------------------- text functions
\* Texts are sequences of one-character strings.
Texts(chars, n) == UNION {[1..k -> chars] : k \in 0..n}

IsSpace(ch) == ch \in {" ", "\n"}

\* The characters of percent-encoded inputs ("Z" is not a hexadecimal digit)
\* and of plain inputs.
EncodedChars == {"Z", "+", "%", "2", "5", "B"}
PlainChars == {"Z", " ", "+", "%", "2"}

IsHex(ch) == ch \in {"2", "5", "B"}

\* The character of a two-digit hexadecimal code.
ByteOf(h1, h2) ==
    CASE <<h1, h2>> = <<"2", "0">> -> " "
      [] <<h1, h2>> = <<"2", "2">> -> "\""
      [] <<h1, h2>> = <<"2", "5">> -> "%"
      [] <<h1, h2>> = <<"2", "B">> -> "+"
      [] <<h1, h2>> = <<"3", "2">> -> "2"
      [] <<h1, h2>> = <<"5", "A">> -> "Z"
      [] OTHER -> "x" \o h1 \o h2

\* url.QueryUnescape, first pass: an escape that is not % and two
\* hexadecimal digits is an error.
RECURSIVE EscapesValid(_, _)
EscapesValid(str, i) ==
    IF i > Len(str) THEN TRUE
    ELSE IF str[i] = "%"
         THEN /\ i + 2 <= Len(str)
              /\ IsHex(str[i + 1])
              /\ IsHex(str[i + 2])
              /\ EscapesValid(str, i + 3)
         ELSE EscapesValid(str, i + 1)

\* url.QueryUnescape, second pass; in "query" mode a plus sign is a space.
RECURSIVE Unescape(_, _, _)
Unescape(str, i, mode) ==
    IF i > Len(str) THEN <<>>
    ELSE CASE str[i] = "%" -> <<ByteOf(str[i + 1], str[i + 2])>> \o Unescape(str, i + 3, mode)
           [] str[i] = "+" /\ mode = "query" -> <<" ">> \o Unescape(str, i + 1, mode)
           [] OTHER -> <<str[i]>> \o Unescape(str, i + 1, mode)

\* decodeURLEncodedDocument: the decoded text and no error, or "" and an error.
decodeURLEncodedDocument_Path(encoded) ==
    IF EscapesValid(encoded, 1)
    THEN [value |-> Unescape(encoded, 1, "path"), err |-> FALSE]
    ELSE [value |-> <<>>, err |-> TRUE]

decodeURLEncodedDocument(encoded) ==
    IF EscapesValid(encoded, 1)
    THEN [value |-> Unescape(encoded, 1, "query"), err |-> FALSE]
    ELSE [value |-> <<>>, err |-> TRUE]

\* url.QueryEscape, the encoding the decoder inverts: letters and digits
\* stay, a space becomes a plus sign, anything else becomes % and its code.
RECURSIVE QueryEscape(_, _)
QueryEscape(str, i) ==
    IF i > Len(str) THEN <<>>
    ELSE (CASE str[i] = " " -> <<"+">>
            [] str[i] = "+" -> <<"%", "2", "B">>
            [] str[i] = "%" -> <<"%", "2", "5">>
            [] OTHER -> <<str[i]>>) \o QueryEscape(str, i + 1)

\* json.Unmarshal succeeds: over the characters in use the JSON texts are
\* the numbers, with spaces around them allowed.
RECURSIVE Trim(_)
Trim(str) ==
    IF str = <<>> THEN str
    ELSE IF str[1] = " " THEN Trim(Tail(str))
    ELSE IF str[Len(str)] = " " THEN Trim(SubSeq(str, 1, Len(str) - 1))
    ELSE str

ParsesAsJSON(text) ==
    /\ Trim(text) # <<>>
    /\ \A i \in DOMAIN Trim(text) : Trim(text)[i] \in {"2", "5"}

\* The message loadPolicyDocumentCmd returns once the provider has answered
\* with the percent-encoded document.
loadPolicyDocumentMsg_IgnoresError(policyArn, encoded) ==
    [type |-> "policyDocumentLoadedMsg", policyArn |-> policyArn,
     document |-> decodeURLEncodedDocument(encoded).value]

loadPolicyDocumentMsg(policyArn, encoded) ==
    IF decodeURLEncodedDocument(encoded).err
    THEN [type |-> "errorMsg", policyArn |-> policyArn, document |-> <<>>]
    ELSE [type |-> "policyDocumentLoadedMsg", policyArn |-> policyArn,
          document |-> decodeURLEncodedDocument(encoded).value]

\* strings.Fields: the words of a text, split around runs of white space.
RECURSIVE FieldsFrom(_, _, _)
FieldsFrom(text, i, word) ==
    IF i > Len(text) THEN (IF word = <<>> THEN <<>> ELSE <<word>>)
    ELSE IF IsSpace(text[i])
         THEN (IF word = <<>> THEN <<>> ELSE <<word>>) \o FieldsFrom(text, i + 1, <<>>)
         ELSE FieldsFrom(text, i + 1, Append(word, text[i]))

Fields(text) == FieldsFrom(text, 1, <<>>)

\* if lineLen > 0 && lineLen+wordLen+1 > maxWidth
NeedsNewline_NoSpace(lineLen, wordLen, maxWidth) == lineLen > 0 /\ lineLen + wordLen > maxWidth

NeedsNewline(lineLen, wordLen, maxWidth) == lineLen > 0 /\ lineLen + wordLen + 1 > maxWidth

\* The loop of wordWrap over the words.
RECURSIVE WrapFrom(_, _, _, _)
WrapFrom(words, i, lineLen, maxWidth) ==
    IF i > Len(words) THEN <<>>
    ELSE IF NeedsNewline(lineLen, Len(words[i]), maxWidth)
         THEN <<"\n">> \o words[i] \o WrapFrom(words, i + 1, Len(words[i]), maxWidth)
         ELSE IF i > 1
              THEN <<" ">> \o words[i]
                   \o WrapFrom(words, i + 1, lineLen + 1 + Len(words[i]), maxWidth)
              ELSE words[i] \o WrapFrom(words, i + 1, lineLen + Len(words[i]), maxWidth)

wordWrap(text, maxWidth) ==
    IF maxWidth <= 0 \/ Len(text) = 0 THEN text
    ELSE WrapFrom(Fields(text), 1, 0, maxWidth)

\* The characters of the texts colourised: a quote, a letter, a colon and a
\* line break (which is white space).
JsonChars == {"\"", "k", ":", "\n"}

\* The character classes of the two expressions over the characters a
\* colourised text is made of: \s, [a-zA-Z0-9], [^"] and . before a quote.
ColourChars == JsonChars \cup {"ansi"}
SpaceClass == {"\n"}
AlnumClass == {"k"}
NotQuoteClass == ColourChars \ {"\""}
DotClass == ColourChars \ {"\"", "\n"}

\* The first index from i on whose character is outside class, Len(text) + 1
\* when there is none.
RECURSIVE SkipWhile(_, _, _)
SkipWhile(text, i, class) ==
    IF i <= Len(text) /\ text[i] \in class THEN SkipWhile(text, i + 1, class) ELSE i

\* keyRegex "([^"]+)"(\s*:\s*) at i: the index of the closing quote and of
\* the last character matched, or no match.
KeyMatch(text, i) ==
    LET j == SkipWhile(text, i + 1, NotQuoteClass)
        c == SkipWhile(text, j + 1, SpaceClass)
    IN  IF /\ text[i] = "\""
           /\ j > i + 1
           /\ j <= Len(text)
           /\ c <= Len(text)
           /\ text[c] = ":"
        THEN [found |-> TRUE, quote |-> j, last |-> SkipWhile(text, c + 1, SpaceClass) - 1]
        ELSE [found |-> FALSE, quote |-> 0, last |-> 0]

\* The replacement \033[<code>m"$1"\033[0m$2: key is "$1" with its quotes.
KeyReplacement_NoSeparator(key, sep) == <<"ansi">> \o key \o <<"ansi">>

KeyReplacement(key, sep) == <<"ansi">> \o key \o <<"ansi">> \o sep

\* keyRegex.ReplaceAllString: leftmost matches, not overlapping.
RECURSIVE ColorizeKeys(_, _)
ColorizeKeys(text, i) ==
    IF i > Len(text) THEN <<>>
    ELSE LET m == KeyMatch(text, i) IN
         IF m.found
         THEN KeyReplacement(SubSeq(text, i, m.quote), SubSeq(text, m.quote + 1, m.last))
              \o ColorizeKeys(text, m.last + 1)
         ELSE <<text[i]>> \o ColorizeKeys(text, i + 1)

\* actionRegex "([a-zA-Z0-9]+):(.*?)" at i: the index of the colon and of
\* the closing quote, or no match.
ActionMatch(text, i) ==
    LET c == SkipWhile(text, i + 1, AlnumClass)
        q == SkipWhile(text, c + 1, DotClass)
    IN  IF /\ text[i] = "\""
           /\ c > i + 1
           /\ c <= Len(text)
           /\ text[c] = ":"
           /\ q <= Len(text)
           /\ text[q] = "\""
        THEN [found |-> TRUE, colon |-> c, last |-> q]
        ELSE [found |-> FALSE, colon |-> 0, last |-> 0]

\* actionRegex.ReplaceAllString with "\033[<code>m$1\033[0m:$2"
RECURSIVE ColorizeActions(_, _)
ColorizeActions(text, i) ==
    IF i > Len(text) THEN <<>>
    ELSE LET m == ActionMatch(text, i) IN
         IF m.found
         THEN <<"\"", "ansi">> \o SubSeq(text, i + 1, m.colon - 1) \o <<"ansi", ":">>
              \o SubSeq(text, m.colon + 1, m.last - 1) \o <<"\"">>
              \o ColorizeActions(text, m.last + 1)
         ELSE <<text[i]>> \o ColorizeActions(text, i + 1)

colorizeJSON(jsonStr) == ColorizeActions(ColorizeKeys(jsonStr, 1), 1)

\* if m.currentScreen != "profiles" (the switch-profile key)
SwitchProfileAllowed_Always(screen) == TRUE

SwitchProfileAllowed(screen) == screen # "profiles"

\* tea.Batch(loadIAMRolesCmd(m.currentProfile), loadUserArnCmd(m.currentProfile))
SwitchCmds_RolesOnly(profile) == <<loadIAMRolesCmd(profile)>>

SwitchCmds(profile) == <<loadIAMRolesCmd(profile), loadUserArnCmd(profile)>>

\* The screen the escape key leads to.
BackTarget_Previous(screen) ==
    CASE screen = "profiles" -> "policies"
      [] screen = "policies" -> "roles"
      [] screen = "policy_document" -> "policies"
      [] OTHER -> screen

BackTarget(screen) ==
    CASE screen = "profiles" -> "roles"
      [] screen = "policies" -> "roles"
      [] screen = "policy_document" -> "policies"
      [] OTHER -> screen

\* m.selectedPolicy = nil in the escape key's policies branch only.
BackClearsPolicy_Never(screen) == FALSE

BackClearsPolicy(screen) == screen = "policies"

\* if !m.selectedRole.policiesLoaded (Enter on the roles screen)
NeedsPolicies_Always(role) == TRUE

NeedsPolicies_Never(role) == FALSE

NeedsPolicies(role) == ~role.policiesLoaded

\* if !m.selectedPolicy.documentLoaded (Enter on the policies screen)
NeedsDocument_Always(policy) == TRUE

NeedsDocument(policy) == ~policy.documentLoaded

\* The profile a command reads from: loadIAMRolesCmd and loadUserArnCmd load
\* the configuration of the profile they are given, when it is not empty;
\* every other command calls config.LoadDefaultConfig(ctx), the profile of
\* the environment.
ProfileOf(c) ==
    IF c.cmd \in {"loadIAMRoles", "loadUserArn"} /\ c.arg # ""
    THEN c.arg
    ELSE EnvProfile

\* ------------------------------------------------------------- initial state
\* initialModel() followed by the commands of Init().
Init ==
    /\ currentScreen = "roles"
    /\ loading = FALSE
    /\ err = NoErr
    /\ statusMsg = <<"Select a role to view its policies">>
    /\ rolesList = <<>>
    /\ rolesIndex = 0
    /\ selectedRole = Nil
    /\ policiesList = <<>>
    /\ policiesIndex = 0
    /\ selectedPolicy = Nil
    /\ policyDocument = EmptyDoc
    /\ currentProfile = ""
    /\ availableProfiles = <<>>
    /\ profilesList = <<>>
    /\ profilesIndex = 0
    /\ userArn = <<>>
    /\ searchMode = FALSE
    /\ searchQuery = <<>>
    /\ searchResults = <<>>
    /\ currentMatch = 0
    /\ inflight = SetToBag({loadCurrentProfileCmd, loadIAMRolesCmd(""), loadUserArnCmd("")})
    /\ lastMsg = [type |-> "init", screen |-> "roles"]
    /\ exit = "running"
    /\ steps = 0
    /\ switchedTo = ""
    /\ docLoadedFor = {}
    /\ yOffset = 0
    /\ Unsized
    /\ call = Idle

\* The reducer returns cmds: they start running.
Emit(cmds) ==
    /\ BagCardinality(inflight) + Len(cmds) <= MaxInflight
    /\ inflight' = inflight (+) BagOfSeq(cmds)

\* A key message: nothing completes.  lastMsg records the message just
\* processed and the screen it was processed on.
Key(k) ==
    /\ exit = "running"
    /\ steps < MaxSteps
    /\ steps' = steps + 1
    /\ lastMsg' = [type |-> k, screen |-> currentScreen]

\* Command c completes and delivers its one message.
Completes(c, type) ==
    /\ exit = "running"
    /\ steps < MaxSteps
    /\ steps' = steps + 1
    /\ BagIn(c, inflight)
    /\ inflight' = inflight (-) SetToBag({c})
    /\ lastMsg' = [type |-> type, screen |-> currentScreen]

\* ------------------------------------------------------------- key messages
\* msg.Type == tea.KeyEsc (the first block of case tea.KeyMsg); on the roles
\* screen the key falls through to the list widget, which has nothing to do.
KeyEsc ==
    /\ Key("esc")
    /\ currentScreen' = BackTarget(currentScreen)
    /\ selectedPolicy' = IF BackClearsPolicy(currentScreen) THEN Nil ELSE selectedPolicy
    /\ statusMsg' = IF currentScreen = "roles" THEN statusMsg ELSE NoStatus
    /\ UNCHANGED <<loading, err, roleVars, policiesList, policiesIndex, policyDocument,
                   profileVars, searchVars, inflight, exit, historyVars, viewVars, call>>

\* case key.Matches(msg, keys.Quit): return m, tea.Quit
KeyQuit_UnlessSearching ==
    /\ Key("q")
    /\ ~(searchMode /\ currentScreen = "policy_document")
    /\ exit' = "quit"
    /\ UNCHANGED inflight
    /\ UNCHANGED <<navVars, roleVars, policyVars, profileVars, searchVars, historyVars, viewVars, call>>

KeyQuit ==
    /\ Key("q")
    /\ exit' = "quit"
    /\ UNCHANGED inflight
    /\ UNCHANGED <<navVars, roleVars, policyVars, profileVars, searchVars, historyVars, viewVars, call>>

\* case key.Matches(msg, keys.SwitchProfile)
KeySwitchProfile ==
    /\ Key("p")
    /\ IF SwitchProfileAllowed(currentScreen)
       THEN /\ currentScreen' = "profiles"
            /\ loading' = TRUE
            /\ listHeight' = [listHeight EXCEPT !["profiles"] = height - verticalMarginHeight]
            /\ Emit(<<loadAWSProfilesCmd>>)
       ELSE /\ UNCHANGED <<currentScreen, loading, listHeight, inflight>>
    /\ UNCHANGED <<err, statusMsg, roleVars, policyVars, profileVars, searchVars, exit, historyVars,
                   yOffset, viewHeight, width, height, call>>

\* if m.rolesList.SelectedItem() == nil { return m, nil }, and the same for
\* the policies and the profiles list.
EnterNoSelection_SetsLoading ==
    /\ loading' = TRUE
    /\ UNCHANGED <<currentScreen, err, statusMsg, roleVars, policyVars, profileVars, searchVars,
                   inflight, exit, historyVars, viewVars, call>>

EnterNoSelection ==
    UNCHANGED <<navVars, roleVars, policyVars, profileVars, searchVars, inflight,
                exit, historyVars, viewVars, call>>

\* case key.Matches(msg, keys.Enter), currentScreen == "roles"
EnterOnRoles ==
    IF ~HasSelectedItem(rolesList, rolesIndex)
    THEN EnterNoSelection
    ELSE LET selected == rolesList[rolesIndex + 1] IN
         /\ selectedRole' = InList(rolesIndex)
         /\ currentScreen' = "policies"
         /\ IF NeedsPolicies(selected)
            THEN /\ loading' = TRUE
                 /\ statusMsg' = <<"Loading policies for">>
                 /\ Emit(<<loadRolePoliciesCmd(selected.roleName)>>)
                 /\ UNCHANGED <<policiesList, policiesIndex, selectedPolicy>>
            ELSE /\ policiesList' = selected.policies
                 /\ selectedPolicy' = Detach(selectedPolicy, policiesList)
                 /\ policiesIndex' = IF Len(selected.policies) > 0 THEN 0 ELSE policiesIndex
                 /\ statusMsg' = NoStatus
                 /\ UNCHANGED <<loading, inflight>>
         /\ UNCHANGED <<err, rolesList, rolesIndex, policyDocument, profileVars, searchVars,
                        exit, historyVars, viewVars, call>>

\* "Reset search state when switching policy documents"
ResetSearch_KeepsResults ==
    /\ searchMode' = FALSE
    /\ searchQuery' = <<>>
    /\ UNCHANGED <<searchResults, currentMatch>>

ResetSearch ==
    /\ searchMode' = FALSE
    /\ searchQuery' = <<>>
    /\ searchResults' = <<>>
    /\ currentMatch' = 0

\* case key.Matches(msg, keys.Enter), currentScreen == "policies"
EnterOnPolicies ==
    IF ~HasSelectedItem(policiesList, policiesIndex)
    THEN EnterNoSelection
    ELSE LET selected == policiesList[policiesIndex + 1] IN
         /\ selectedPolicy' = InList(policiesIndex)
         /\ currentScreen' = "policy_document"
         /\ ResetSearch
         /\ IF NeedsDocument(selected)
            THEN /\ loading' = TRUE
                 /\ statusMsg' = <<"Loading policy document for">>
                 /\ Emit(<<loadPolicyDocumentCmd(selected.policyArn)>>)
                 /\ UNCHANGED <<policyDocument, yOffset>>
            ELSE /\ policyDocument' = selected.policyDocument
                 /\ yOffset' = SetContent(selected.policyDocument, yOffset, viewHeight)
                 /\ statusMsg' = NoStatus
                 /\ UNCHANGED <<loading, inflight>>
         /\ UNCHANGED <<err, roleVars, policiesList, policiesIndex, profileVars, exit,
                        historyVars, sizeVars, call>>

\* case key.Matches(msg, keys.Enter), currentScreen == "profiles"
EnterOnProfiles ==
    IF ~HasSelectedItem(profilesList, profilesIndex)
    THEN EnterNoSelection
    ELSE LET selected == profilesList[profilesIndex + 1] IN
         /\ currentProfile' = selected
         /\ statusMsg' = <<"Switched to profile:">>
         /\ currentScreen' = "roles"
         /\ loading' = TRUE
         /\ rolesList' = <<>>
         /\ selectedRole' = Nil
         /\ selectedPolicy' = Nil
         /\ Emit(SwitchCmds(selected))
         /\ switchedTo' = selected
         /\ docLoadedFor' = {}
         /\ UNCHANGED <<err, rolesIndex, policiesList, policiesIndex, policyDocument,
                        availableProfiles, profilesList, profilesIndex, userArn, searchVars,
                        exit, viewVars, call>>

\* m.performSearch()
performSearch ==
    IF searchQuery = <<>>
    THEN /\ searchResults' = <<>>
         /\ UNCHANGED currentMatch
    ELSE /\ searchResults' = MatchesFrom(Lines(policyDocument), ToLower(searchQuery), 1)
         /\ currentMatch' = 0

\* "Handle search mode input", case tea.KeyEnter: no branch of
\* case keys.Enter takes the key on the policy_document screen.  Outside
\* search mode the key reaches the viewport, which has nothing to do with it.
EnterOnDocument ==
    /\ IF searchMode
       THEN /\ IF searchQuery # <<>>
               THEN /\ performSearch
                    /\ yOffset' = FirstMatchOffset(searchResults', yOffset)
               ELSE UNCHANGED <<searchResults, currentMatch, yOffset>>
            /\ searchMode' = FALSE
            /\ UNCHANGED searchQuery
       ELSE UNCHANGED <<searchVars, yOffset>>
    /\ UNCHANGED <<navVars, roleVars, policyVars, profileVars, inflight, exit, historyVars,
                   sizeVars, call>>

\* case key.Matches(msg, keys.Enter)
KeyEnter ==
    /\ Key("enter")
    /\ CASE currentScreen = "roles" -> EnterOnRoles
         [] currentScreen = "policies" -> EnterOnPolicies
         [] currentScreen = "profiles" -> EnterOnProfiles
         [] OTHER -> EnterOnDocument

\* "Handle search mode input", default: a key whose text is one printable
\* character is appended to the query.
SearchInput(ch) ==
    /\ Len(searchQuery) < MaxQuery
    /\ searchQuery' = Append(searchQuery, ch)
    /\ UNCHANGED <<searchMode, searchResults, currentMatch>>
    /\ UNCHANGED <<navVars, roleVars, policyVars, profileVars, inflight, exit, historyVars, viewVars, call>>

\* case key.Matches(msg, keys.Search) on the policy_document screen: the key
\* opens search mode; in search mode it falls to the search input.
KeySearch_KeepsMatch ==
    /\ Key("/")
    /\ currentScreen = "policy_document"
    /\ IF ~searchMode
       THEN /\ searchMode' = TRUE
            /\ searchQuery' = <<>>
            /\ searchResults' = <<>>
            /\ UNCHANGED currentMatch
            /\ UNCHANGED <<navVars, roleVars, policyVars, profileVars, inflight, exit,
                           historyVars, viewVars, call>>
       ELSE SearchInput("/")

KeySearch ==
    /\ Key("/")
    /\ currentScreen = "policy_document"
    /\ IF ~searchMode
       THEN /\ searchMode' = TRUE
            /\ searchQuery' = <<>>
            /\ searchResults' = <<>>
            /\ currentMatch' = 0
            /\ UNCHANGED <<navVars, roleVars, policyVars, profileVars, inflight, exit,
                           historyVars, viewVars, call>>
       ELSE SearchInput("/")

\* A character key bound to no command, typed in search mode.
KeyRune ==
    \E ch \in Runes :
        /\ Key(ch)
        /\ searchMode
        /\ currentScreen = "policy_document"
        /\ SearchInput(ch)

\* "Handle search mode input", case tea.KeyBackspace
KeyBackspace ==
    /\ Key("backspace")
    /\ searchMode
    /\ currentScreen = "policy_document"
    /\ searchQuery' = IF Len(searchQuery) > 0 THEN SubSeq(searchQuery, 1, Len(searchQuery) - 1)
                       ELSE searchQuery
    /\ UNCHANGED <<searchMode, searchResults, currentMatch>>
    /\ UNCHANGED <<navVars, roleVars, policyVars, profileVars, inflight, exit, historyVars, viewVars, call>>

\* The up and down arrows on a list screen reach the list widget
\* ("Handle list updates").
KeyUp ==
    /\ Key("up")
    /\ currentScreen # "policy_document"
    /\ rolesIndex' = IF currentScreen = "roles" THEN CursorUp(rolesList, rolesIndex) ELSE rolesIndex
    /\ policiesIndex' = IF currentScreen = "policies" THEN CursorUp(policiesList, policiesIndex)
                        ELSE policiesIndex
    /\ profilesIndex' = IF currentScreen = "profiles" THEN CursorUp(profilesList, profilesIndex)
                        ELSE profilesIndex
    /\ UNCHANGED <<navVars, rolesList, selectedRole, policiesList, selectedPolicy, policyDocument,
                   currentProfile, availableProfiles, profilesList, userArn, searchVars,
                   inflight, exit, historyVars, viewVars, call>>

KeyDown ==
    /\ Key("down")
    /\ currentScreen # "policy_document"
    /\ rolesIndex' = IF currentScreen = "roles" THEN CursorDown(rolesList, rolesIndex)
                     ELSE rolesIndex
    /\ policiesIndex' = IF currentScreen = "policies" THEN CursorDown(policiesList, policiesIndex)
                        ELSE policiesIndex
    /\ profilesIndex' = IF currentScreen = "profiles" THEN CursorDown(profilesList, profilesIndex)
                        ELSE profilesIndex
    /\ UNCHANGED <<navVars, rolesList, selectedRole, policiesList, selectedPolicy, policyDocument,
                   currentProfile, availableProfiles, profilesList, userArn, searchVars,
                   inflight, exit, historyVars, viewVars, call>>

\* case key.Matches(msg, keys.NextMatch) on the policy_document screen: with
\* results the current match advances; without results the key falls to the
\* search input in search mode and to the viewport, which has no binding for
\* it, outside.
KeyNextMatch ==
    /\ Key("n")
    /\ currentScreen = "policy_document"
    /\ IF Len(searchResults) > 0
       THEN /\ currentMatch' = NextIndex(currentMatch, Len(searchResults))
            /\ yOffset' = searchResults[currentMatch' + 1]
            /\ UNCHANGED <<searchMode, searchQuery, searchResults>>
            /\ UNCHANGED <<navVars, roleVars, policyVars, profileVars, inflight, exit,
                           historyVars, sizeVars, call>>
       ELSE IF searchMode THEN SearchInput("n")
            ELSE UNCHANGED <<navVars, roleVars, policyVars, profileVars, searchVars, inflight,
                             exit, historyVars, viewVars, call>>

\* case key.Matches(msg, keys.PrevMatch)
KeyPrevMatch ==
    /\ Key("N")
    /\ currentScreen = "policy_document"
    /\ IF Len(searchResults) > 0
       THEN /\ currentMatch' = PrevIndex(currentMatch, Len(searchResults))
            /\ yOffset' = searchResults[currentMatch' + 1]
            /\ UNCHANGED <<searchMode, searchQuery, searchResults>>
            /\ UNCHANGED <<navVars, roleVars, policyVars, profileVars, inflight, exit,
                           historyVars, sizeVars, call>>
       ELSE IF searchMode THEN SearchInput("N")
            ELSE UNCHANGED <<navVars, roleVars, policyVars, profileVars, searchVars, inflight,
                             exit, historyVars, viewVars, call>>

\* ------------------------------------------------------------- completion messages
\* case rolesLoadedMsg
RolesLoaded ==
    \E c \in BagToSet(inflight), roles \in RolePayloads :
        /\ c.cmd = "loadIAMRoles"
        /\ Completes(c, "rolesLoadedMsg")
        /\ loading' = FALSE
        /\ rolesList' = roles
        /\ selectedRole' = Detach(selectedRole, rolesList)
        /\ UNCHANGED <<currentScreen, err, statusMsg, rolesIndex, policyVars, profileVars,
                       searchVars, exit, historyVars, viewVars, call>>

\* case policiesLoadedMsg
PoliciesLoaded ==
    \E c \in BagToSet(inflight), policies \in PolicyPayloads :
        /\ c.cmd = "loadRolePolicies"
        /\ Completes(c, "policiesLoadedMsg")
        /\ loading' = FALSE
        /\ policiesList' = policies
        /\ selectedPolicy' = Detach(selectedPolicy, policiesList)
        /\ CASE selectedRole.ref = "list" ->
                  /\ rolesList' = [rolesList EXCEPT ![selectedRole.idx + 1] =
                                     [@ EXCEPT !.policies = policies, !.policiesLoaded = TRUE]]
                  /\ UNCHANGED selectedRole
             [] selectedRole.ref = "detached" ->
                  /\ selectedRole' = Detached([selectedRole.obj EXCEPT !.policies = policies,
                                                                     !.policiesLoaded = TRUE])
                  /\ UNCHANGED rolesList
             [] OTHER -> UNCHANGED <<rolesList, selectedRole>>
        /\ statusMsg' = NoStatus
        /\ UNCHANGED <<currentScreen, err, rolesIndex, policiesIndex, policyDocument,
                       profileVars, searchVars, exit, historyVars, viewVars, call>>

\* case policyDocumentLoadedMsg for the message of command c carrying the
\* decoded document raw; m.selectedPolicy.policyDocument = ... with a nil
\* selectedPolicy is a nil-pointer dereference: the program panics.
PolicyDocumentHandler(c, raw) ==
    /\ Completes(c, "policyDocumentLoadedMsg")
    /\ IF selectedPolicy = Nil
       THEN /\ exit' = "panic"
            /\ UNCHANGED <<loading, policyVars, docLoadedFor, yOffset>>
       ELSE LET doc == FormatDocument(raw) IN
            /\ loading' = FALSE
            /\ policyDocument' = doc
            /\ yOffset' = SetContent(doc, yOffset, viewHeight)
            /\ IF selectedPolicy.ref = "list"
               THEN /\ policiesList' = [policiesList EXCEPT ![selectedPolicy.idx + 1] =
                                          [@ EXCEPT !.policyDocument = doc,
                                                    !.documentLoaded = TRUE]]
                    /\ UNCHANGED selectedPolicy
               ELSE /\ selectedPolicy' = Detached([selectedPolicy.obj EXCEPT
                                                      !.policyDocument = doc,
                                                      !.documentLoaded = TRUE])
                    /\ UNCHANGED policiesList
            /\ docLoadedFor' = IF Deref(selectedPolicy, policiesList).policyArn = c.arg
                               THEN docLoadedFor \cup {c.arg} ELSE docLoadedFor
            /\ UNCHANGED <<policiesIndex, exit>>
    /\ UNCHANGED <<currentScreen, err, statusMsg, roleVars, profileVars, searchVars,
                   switchedTo, sizeVars, call>>

PolicyDocumentLoaded ==
    \E c \in BagToSet(inflight) : \E raw \in RawDocuments(c.arg) :
        /\ c.cmd = "loadPolicyDocument"
        /\ PolicyDocumentHandler(c, raw)

\* case profilesLoadedMsg, delivered by loadCurrentProfileCmd (an empty
\* profile list) and by loadAWSProfilesCmd.
ProfilesLoaded ==
    \E c \in BagToSet(inflight), found \in ProfilePayloads :
        /\ c.cmd \in {"loadCurrentProfile", "loadAWSProfiles"}
        /\ c.cmd = "loadCurrentProfile" => found = <<>>
        /\ Completes(c, "profilesLoadedMsg")
        /\ loading' = FALSE
        /\ availableProfiles' = found
        /\ currentProfile' = EnvProfile
        /\ profilesList' = found
        /\ UNCHANGED <<currentScreen, err, statusMsg, roleVars, policyVars, profilesIndex,
                       userArn, searchVars, exit, historyVars, viewVars, call>>

\* case userArnLoadedMsg
UserArnLoaded ==
    \E c \in BagToSet(inflight) :
        /\ c.cmd = "loadUserArn"
        /\ Completes(c, "userArnLoadedMsg")
        /\ userArn' = <<"identity of", c.arg>>
        /\ UNCHANGED <<navVars, roleVars, policyVars, currentProfile, availableProfiles,
                       profilesList, profilesIndex, searchVars, exit, historyVars, viewVars, call>>

\* case errorMsg, for the message of command c.
ErrorHandler_KeepsLoading(c) ==
    /\ Completes(c, "errorMsg")
    /\ err' = <<"error">>
    /\ UNCHANGED <<currentScreen, loading, statusMsg, roleVars, policyVars, profileVars,
                   searchVars, exit, historyVars, viewVars, call>>

ErrorHandler(c) ==
    /\ Completes(c, "errorMsg")
    /\ loading' = FALSE
    /\ err' = <<"error">>
    /\ UNCHANGED <<currentScreen, statusMsg, roleVars, policyVars, profileVars, searchVars,
                   exit, historyVars, viewVars, call>>

\* Every command but loadCurrentProfileCmd can fail.
Failed ==
    \E c \in BagToSet(inflight) :
        /\ c.cmd # "loadCurrentProfile"
        /\ ErrorHandler(c)

Next ==
    \/ KeyEsc
    \/ KeyQuit
    \/ KeySwitchProfile
    \/ KeyEnter
    \/ KeyUp
    \/ KeyDown
    \/ KeySearch
    \/ KeyRune
    \/ KeyBackspace
    \/ RolesLoaded
    \/ PoliciesLoaded
    \/ PolicyDocumentLoaded
    \/ ProfilesLoaded
    \/ UserArnLoaded
    \/ Failed

Spec == Init /\ [][Next]_vars

\* ------------------------------------------------------------- window size
\* The window sizes the terminal reports.
WindowSizes == {[width |-> 80, height |-> 9], [width |-> 80, height |-> 11]}

\* msg.Height - verticalMarginHeight
ResizedHeight_NoMargin(h) == h

ResizedHeight(h) == h - verticalMarginHeight

\* case tea.WindowSizeMsg: the sizes are recorded and the handler returns
\* m, nil; the offset of the viewport is not touched.
WindowSizeMsg ==
    \E size \in WindowSizes :
        /\ Key("WindowSizeMsg")
        /\ height' = size.height
        /\ width' = size.width
        /\ listHeight' = [l \in ListNames |-> ResizedHeight(size.height)]
        /\ viewHeight' = ResizedHeight(size.height)
        /\ UNCHANGED <<navVars, roleVars, policyVars, profileVars, searchVars, inflight, exit,
                       historyVars, yOffset, call>>

\* ------------------------------------------------------------- scrolling
\* maxOffset := len(strings.Split(m.policyDocument, "\n")) - m.policyView.Height
MaxOffset == Len(Lines(policyDocument)) - viewHeight

\* A scrolling key on the policy_document screen: outside search mode the
\* viewport offset becomes offset; in search mode the key reaches the search
\* input, which takes one-character keys only.
ScrollKey(k, offset) ==
    /\ Key(k)
    /\ currentScreen = "policy_document"
    /\ yOffset' = IF searchMode THEN yOffset ELSE offset
    /\ UNCHANGED <<navVars, roleVars, policyVars, profileVars, searchVars, inflight, exit,
                   historyVars, sizeVars, call>>

\* case key.Matches(msg, keys.Up), currentScreen == "policy_document"
KeyUpOnDocument == ScrollKey("up", IF yOffset > 0 THEN yOffset - 1 ELSE yOffset)

\* case key.Matches(msg, keys.Down), currentScreen == "policy_document"
KeyDownOnDocument == ScrollKey("down", IF yOffset < MaxOffset THEN yOffset + 1 ELSE yOffset)

\* case key.Matches(msg, keys.PageUp)
KeyPageUp ==
    ScrollKey("pgup", IF yOffset - viewHeight < 0 THEN 0 ELSE yOffset - viewHeight)

\* case key.Matches(msg, keys.PageDown): the offset is capped at maxOffset,
\* which is below 0 when the document is shorter than the viewport.
KeyPageDown ==
    ScrollKey("pgdn", IF yOffset + viewHeight > MaxOffset THEN MaxOffset
                      ELSE yOffset + viewHeight)

\* case key.Matches(msg, keys.HalfPageUp)
KeyHalfPageUp ==
    ScrollKey("shift+pgup", IF yOffset - (viewHeight \div 2) < 0 THEN 0
                            ELSE yOffset - (viewHeight \div 2))

\* case key.Matches(msg, keys.HalfPageDown)
KeyHalfPageDown ==
    ScrollKey("shift+pgdn", IF yOffset + (viewHeight \div 2) > MaxOffset THEN MaxOffset
                            ELSE yOffset + (viewHeight \div 2))

\* case key.Matches(msg, keys.GotoTop)
KeyGotoTop == ScrollKey("home", 0)

\* case key.Matches(msg, keys.GotoBottom)
KeyGotoBottom == ScrollKey("end", IF MaxOffset < 0 THEN 0 ELSE MaxOffset)

\* ------------------------------------------------------------- the document screen
\* Heights of the viewport after a window size message.
ViewHeights == {0, 2}

\* The program after start-up, Enter on role r1, its two policies loaded and
\* Enter on policy a1: the document of a1 is being fetched.
WaitingForDocument ==
    /\ currentScreen = "policy_document"
    /\ loading = TRUE
    /\ err = NoErr
    /\ statusMsg = <<"Loading policy document for">>
    /\ rolesList = <<[RoleItem("r1") EXCEPT !.policies = <<PolicyItem("a1"), PolicyItem("a2")>>,
                                           !.policiesLoaded = TRUE],
                     RoleItem("r2")>>
    /\ rolesIndex = 0
    /\ selectedRole = InList(0)
    /\ policiesList = <<PolicyItem("a1"), PolicyItem("a2")>>
    /\ policiesIndex = 0
    /\ selectedPolicy = InList(0)
    /\ policyDocument = EmptyDoc
    /\ currentProfile = EnvProfile
    /\ availableProfiles = <<>>
    /\ profilesList = <<>>
    /\ profilesIndex = 0
    /\ userArn = <<"identity of", "">>
    /\ searchMode = FALSE
    /\ searchQuery = <<>>
    /\ searchResults = <<>>
    /\ currentMatch = 0
    /\ inflight = SetToBag({loadPolicyDocumentCmd("a1")})
    /\ lastMsg = [type |-> "enter", screen |-> "policies"]
    /\ exit = "running"
    /\ steps = 0
    /\ switchedTo = ""
    /\ docLoadedFor = {}
    /\ yOffset = 0

\* The document of a1 is fetched; no function is applied on its own.
DocInit ==
    /\ WaitingForDocument
    /\ viewHeight \in ViewHeights
    /\ Unsized \/ SizedTo(80, 11)
    /\ call = Idle

\* The keys of the document screen and of the way back to it, and the
\* document's arrival.
DocNext ==
    \/ PolicyDocumentLoaded
    \/ KeyEsc
    \/ KeyEnter
    \/ KeyUp
    \/ KeyDown
    \/ KeySearch
    \/ KeyRune
    \/ KeyBackspace
    \/ KeyNextMatch
    \/ KeyPrevMatch

DocSpec == DocInit /\ [][DocNext]_vars

\* ------------------------------------------------------------- the viewport
\* The document screen with the keys that scroll the viewport, the search
\* and the window size messages, for the first ViewSteps messages after the
\* document fetch was requested.
InView(A) == steps < ViewSteps /\ A

ViewNext ==
    \/ InView(PolicyDocumentLoaded)
    \/ InView(WindowSizeMsg)
    \/ InView(KeyUpOnDocument)
    \/ InView(KeyDownOnDocument)
    \/ InView(KeyPageUp)
    \/ InView(KeyPageDown)
    \/ InView(KeyHalfPageUp)
    \/ InView(KeyHalfPageDown)
    \/ InView(KeyGotoTop)
    \/ InView(KeyGotoBottom)
    \/ InView(KeySearch)
    \/ InView(KeyRune)
    \/ InView(KeyEnter)
    \/ InView(KeyNextMatch)
    \/ InView(KeyPrevMatch)

ViewSpec == DocInit /\ [][ViewNext]_vars

\* ------------------------------------------------------------- the first messages
\* The whole reducer with the window size messages, for the first
\* ShortSteps messages of a run.
InShort(A) == steps < ShortSteps /\ A

ShortNext ==
    \/ InShort(KeyEsc)
    \/ InShort(KeyQuit)
    \/ InShort(KeySwitchProfile)
    \/ InShort(KeyEnter)
    \/ InShort(KeyUp)
    \/ InShort(KeyDown)
    \/ InShort(WindowSizeMsg)
    \/ InShort(RolesLoaded)
    \/ InShort(PoliciesLoaded)
    \/ InShort(PolicyDocumentLoaded)
    \/ InShort(ProfilesLoaded)
    \/ InShort(UserArnLoaded)
    \/ InShort(Failed)

ShortSpec == Init /\ [][ShortNext]_vars

\* ------------------------------------------------------------- every command completes
\* A command is a function run once by the runtime, and the message it
\* returns is delivered to Update: a command in flight completes.
Completion ==
    \/ RolesLoaded
    \/ PoliciesLoaded
    \/ PolicyDocumentLoaded
    \/ ProfilesLoaded
    \/ UserArnLoaded
    \/ Failed

\* Keys arrive among the first ShortSteps messages only; the commands then
\* in flight, MaxInflight at most, complete within MaxSteps.
LiveNext ==
    \/ InShort(KeyEsc)
    \/ InShort(KeyQuit)
    \/ InShort(KeySwitchProfile)
    \/ InShort(KeyEnter)
    \/ InShort(KeyUp)
    \/ InShort(KeyDown)
    \/ RolesLoaded
    \/ PoliciesLoaded
    \/ PolicyDocumentLoaded
    \/ ProfilesLoaded
    \/ UserArnLoaded
    \/ Failed

LiveSpec == Init /\ [][LiveNext]_vars /\ WF_vars(Completion)

\* ------------------------------------------------------------- functions on their own
\* A function of the program applied to an input: the input, and the output
\* once the function has returned.
Call(fn, in, w) == [fn |-> fn, in |-> in, width |-> w, out |-> <<>>, done |-> FALSE]

Calls ==
    {Call("decode", e, 0) : e \in Texts(EncodedChars, MaxEncoded)}
    \cup {Call("roundtrip", t, 0) : t \in Texts(PlainChars, MaxPlain)}
    \cup {Call("wordWrap", t, w) : t \in Texts({"a", " ", "\n"}, MaxText), w \in (-1)..MaxWidth}
    \cup {Call("colorize", t, 0) : t \in Texts(JsonChars, MaxJson)}
    \cup {Call("fetchDocument", e, 0) : e \in Texts(EncodedChars, MaxEncoded)}

FnInit ==
    /\ WaitingForDocument
    /\ Unsized
    /\ call \in Calls

Returns(out) ==
    /\ ~call.done
    /\ call' = [call EXCEPT !.out = out, !.done = TRUE]
    /\ UNCHANGED <<navVars, roleVars, policyVars, profileVars, searchVars, inflight, lastMsg,
                   exit, steps, historyVars, viewVars>>

ApplyDecode ==
    /\ call.fn = "decode"
    /\ Returns(decodeURLEncodedDocument(call.in))

ApplyRoundTrip ==
    /\ call.fn = "roundtrip"
    /\ Returns(decodeURLEncodedDocument(QueryEscape(call.in, 1)))

ApplyWordWrap ==
    /\ call.fn = "wordWrap"
    /\ Returns(wordWrap(call.in, call.width))

ApplyColorize ==
    /\ call.fn = "colorize"
    /\ Returns(colorizeJSON(call.in))

\* loadPolicyDocumentCmd completes: the provider answered with the encoded
\* document call.in and the reducer handles the message the command returns.
DocumentFetched ==
    \E c \in BagToSet(inflight) :
        /\ c.cmd = "loadPolicyDocument"
        /\ call.fn = "fetchDocument"
        /\ LET msg == loadPolicyDocumentMsg(c.arg, call.in) IN
           IF msg.type = "errorMsg"
           THEN ErrorHandler(c)
           ELSE PolicyDocumentHandler(c, [arn |-> msg.policyArn,
                                          json |-> ParsesAsJSON(msg.document)])

FnNext ==
    \/ ApplyDecode
    \/ ApplyRoundTrip
    \/ ApplyWordWrap
    \/ ApplyColorize
    \/ DocumentFetched

FnSpec == FnInit /\ [][FnNext]_vars

\* ------------------------------------------------------------- properties
\* The command whose completion message this step processes.
Completed == CHOOSE c \in BagToSet(inflight) : CopiesIn(c, inflight') < CopiesIn(c, inflight)

\* The commands this step's reducer call returned.
Emitted == inflight' (-) inflight

SelectedRoleItem == Deref(selectedRole, rolesList)

SelectedPolicyItem == Deref(selectedPolicy, policiesList)

RoleUnderCursor == rolesList[rolesIndex + 1]

PolicyUnderCursor == policiesList[policiesIndex + 1]

\* C1: a Loaded(policies, forRole) message whose forRole is not the name of
\* the selected role (or that finds no role selected) is dropped: no role's
\* policies or policiesLoaded flag change and the policy list is unchanged.
C1_StalePoliciesDropped ==
    [][(/\ lastMsg'.type = "policiesLoadedMsg"
        /\ \/ selectedRole = Nil
           \/ SelectedRoleItem.roleName # Completed.arg)
       => /\ rolesList' = rolesList
          /\ selectedRole' = selectedRole
          /\ policiesList' = policiesList]_vars

\* C2: a Loaded(document, forPolicy) message whose forPolicy is not the ARN
\* of the selected policy is dropped: the displayed document and every
\* policy's cached document and documentLoaded flag are unchanged.
C2_StaleDocumentDropped ==
    [][(/\ lastMsg'.type = "policyDocumentLoadedMsg"
        /\ \/ selectedPolicy = Nil
           \/ SelectedPolicyItem.policyArn # Completed.arg)
       => /\ policyDocument' = policyDocument
          /\ policiesList' = policiesList
          /\ selectedPolicy' = selectedPolicy]_vars

\* C3: while loading is true, Enter on the roles, policies or profiles screen
\* emits no command; the quit key is still handled.
C3_LoadingSuppressesSelect ==
    [][/\ (/\ loading
           /\ lastMsg'.type = "enter"
           /\ currentScreen \in {"roles", "policies", "profiles"})
          => Emitted = EmptyBag
       /\ (loading /\ lastMsg'.type = "q") => exit' = "quit"]_vars

\* C4: no two fetches of the policies of the same role are outstanding at
\* the same time.
C4_OnePoliciesFetchPerRole ==
    \A c \in BagToSet(inflight) : c.cmd = "loadRolePolicies" => CopiesIn(c, inflight) <= 1

\* C5: after a Profiles select of P, a Loaded(roles) message of a fetch made
\* for another profile (the start-up fetch included) leaves the role list
\* alone: only the result of fetch roles(P) replaces it.
C5_StaleRolesDropped ==
    [][(/\ lastMsg'.type = "rolesLoadedMsg"
        /\ switchedTo # ""
        /\ Completed.arg # switchedTo)
       => rolesList' = rolesList]_vars

\* C6: Enter on the roles screen on a role whose policies are not loaded
\* moves to the policies screen, selects that role, sets loading and emits
\* exactly one command, the fetch of that role's policies.
C6_SelectUnloadedRole ==
    [][(/\ currentScreen = "roles"
        /\ lastMsg'.type = "enter"
        /\ HasSelectedItem(rolesList, rolesIndex)
        /\ ~RoleUnderCursor.policiesLoaded)
       => /\ currentScreen' = "policies"
          /\ selectedRole' = InList(rolesIndex)
          /\ SelectedRoleItem' = RoleUnderCursor
          /\ loading' = TRUE
          /\ Emitted = SetToBag({loadRolePoliciesCmd(RoleUnderCursor.roleName)})]_vars

C6_Witness ==
    /\ lastMsg = [type |-> "enter", screen |-> "roles"]
    /\ currentScreen = "policies"
    /\ loading
    /\ selectedRole.ref = "list"
    /\ SelectedRoleItem.roleName = "r2"
    /\ ~SelectedRoleItem.policiesLoaded
    /\ BagIn(loadRolePoliciesCmd("r2"), inflight)

\* C7: Enter on the roles screen on a role whose policies are loaded moves to
\* the policies screen, emits nothing and leaves loading alone; the policy
\* list becomes that role's cached policies, in order, with the first entry
\* selected when there is one.
C7_SelectLoadedRole ==
    [][(/\ currentScreen = "roles"
        /\ lastMsg'.type = "enter"
        /\ HasSelectedItem(rolesList, rolesIndex)
        /\ RoleUnderCursor.policiesLoaded)
       => /\ currentScreen' = "policies"
          /\ selectedRole' = InList(rolesIndex)
          /\ Emitted = EmptyBag
          /\ inflight' = inflight
          /\ loading' = loading
          /\ policiesList' = RoleUnderCursor.policies
          /\ Len(policiesList') > 0 => policiesIndex' = 0]_vars

C7_Witness ==
    /\ lastMsg = [type |-> "enter", screen |-> "roles"]
    /\ currentScreen = "policies"
    /\ selectedRole.ref = "list"
    /\ SelectedRoleItem.policiesLoaded
    /\ Len(policiesList) = 2
    /\ policiesList = SelectedRoleItem.policies
    /\ policiesIndex = 0
    /\ inflight = EmptyBag

\* C8: Enter on the policies screen moves to the policy_document screen and
\* selects the policy under the cursor; when its document is not loaded,
\* loading is set and exactly one command is emitted, the fetch of the
\* document of that ARN; when it is loaded nothing is emitted and the
\* displayed document becomes the policy's cached document.
C8_SelectPolicy ==
    [][(/\ currentScreen = "policies"
        /\ lastMsg'.type = "enter"
        /\ HasSelectedItem(policiesList, policiesIndex))
       => /\ currentScreen' = "policy_document"
          /\ selectedPolicy' = InList(policiesIndex)
          /\ SelectedPolicyItem' = PolicyUnderCursor
          /\ IF ~PolicyUnderCursor.documentLoaded
             THEN /\ loading' = TRUE
                  /\ Emitted = SetToBag({loadPolicyDocumentCmd(PolicyUnderCursor.policyArn)})
             ELSE /\ Emitted = EmptyBag
                  /\ inflight' = inflight
                  /\ policyDocument' = PolicyUnderCursor.policyDocument]_vars

C8_Witness ==
    /\ lastMsg = [type |-> "enter", screen |-> "policies"]
    /\ currentScreen = "policy_document"
    /\ selectedPolicy.ref = "list"
    /\ SelectedPolicyItem.documentLoaded
    /\ policyDocument = SelectedPolicyItem.policyDocument
    /\ policyDocument.arn = SelectedPolicyItem.policyArn
    /\ ~BagIn(loadPolicyDocumentCmd(SelectedPolicyItem.policyArn), inflight)

\* C9: with the selected policy's document loaded, Esc on the
\* policy_document screen returns to the policies screen and keeps the
\* selected policy and its document; Enter on that policy (the entry of that
\* ARN under the cursor) right after it emits no command.
C9_BackKeepsDocumentCached ==
    [][/\ (/\ currentScreen = "policy_document"
           /\ lastMsg'.type = "esc"
           /\ selectedPolicy # Nil
           /\ SelectedPolicyItem.documentLoaded)
          => /\ currentScreen' = "policies"
             /\ selectedPolicy' = selectedPolicy
             /\ SelectedPolicyItem' = SelectedPolicyItem
       /\ (/\ currentScreen = "policies"
           /\ lastMsg.type = "esc"
           /\ lastMsg'.type = "enter"
           /\ selectedPolicy # Nil
           /\ SelectedPolicyItem.documentLoaded
           /\ HasSelectedItem(policiesList, policiesIndex)
           /\ PolicyUnderCursor.policyArn = SelectedPolicyItem.policyArn)
          => Emitted = EmptyBag]_vars

\* C10: once a policy's document has been loaded, and until the next
\* Profiles select, no Enter on a policy of that ARN emits a fetch of its
\* document.
C10_DocumentCachedForSession ==
    [][(/\ currentScreen = "policies"
        /\ lastMsg'.type = "enter"
        /\ HasSelectedItem(policiesList, policiesIndex)
        /\ PolicyUnderCursor.policyArn \in docLoadedFor)
       => ~BagIn(loadPolicyDocumentCmd(PolicyUnderCursor.policyArn), Emitted)]_vars

\* C11: an errorMsg step stores the error in the error slot, sets loading to
\* false, emits no command (the failed command is not started again) and
\* leaves the screen, the selected role and the selected policy unchanged.
C11_FailedStoresError ==
    [][lastMsg'.type = "errorMsg"
       => /\ err' # NoErr
          /\ loading' = FALSE
          /\ Emitted = EmptyBag
          /\ inflight' = inflight (-) SetToBag({Completed})
          /\ currentScreen' = currentScreen
          /\ selectedRole' = selectedRole
          /\ selectedPolicy' = selectedPolicy]_vars

C11_Witness ==
    /\ lastMsg = [type |-> "errorMsg", screen |-> "policy_document"]
    /\ currentScreen = "policy_document"
    /\ err # NoErr
    /\ ~loading
    /\ selectedRole # Nil
    /\ selectedPolicy # Nil
    /\ ~SelectedPolicyItem.documentLoaded

\* C12: with an error stored, a key that navigates away (escape, Enter or
\* the switch-profile key changing the screen) clears the error slot.
C12_ErrorClearedOnNavigation ==
    [][(/\ err # NoErr
        /\ lastMsg'.type \in {"esc", "enter", "p"}
        /\ currentScreen' # currentScreen)
       => err' = NoErr]_vars

\* C13: the quit key is accepted in every state of the running program,
\* search mode included; it yields the quit command and changes nothing
\* else.
C13_QuitAlwaysAccepted ==
    /\ []((exit = "running" /\ steps < MaxSteps) => ENABLED KeyQuit)
    /\ [][lastMsg'.type = "q"
          => /\ exit' = "quit"
             /\ UNCHANGED <<navVars, roleVars, policyVars, profileVars, searchVars, inflight>>]_vars

C13_Witness ==
    /\ lastMsg = [type |-> "q", screen |-> "policy_document"]
    /\ exit = "quit"
    /\ searchMode
    /\ searchQuery # <<>>
    /\ err # NoErr

\* C14: the switch-profile key on the roles, policies or policy_document
\* screen moves to the profiles screen, sets loading and emits exactly one
\* command, the fetch of the profile list; on the profiles screen it changes
\* neither screen nor loading and emits nothing.
C14_SwitchProfileRequest ==
    [][lastMsg'.type = "p"
       => IF currentScreen # "profiles"
          THEN /\ currentScreen' = "profiles"
               /\ loading' = TRUE
               /\ Emitted = SetToBag({loadAWSProfilesCmd})
          ELSE /\ currentScreen' = currentScreen
               /\ loading' = loading
               /\ Emitted = EmptyBag
               /\ inflight' = inflight]_vars

C14_Witness ==
    /\ lastMsg = [type |-> "p", screen |-> "policy_document"]
    /\ currentScreen = "profiles"
    /\ loading
    /\ CopiesIn(loadAWSProfilesCmd, inflight) = 1

\* C15: Enter on the profiles screen on profile P sets the active profile to
\* P, empties the role list, sets the selected role and the selected policy
\* to nil, sets loading, moves to the roles screen and emits exactly two
\* commands: the fetch of the roles of P and the fetch of the identity of P.
C15_SelectProfile ==
    [][(/\ currentScreen = "profiles"
        /\ lastMsg'.type = "enter"
        /\ HasSelectedItem(profilesList, profilesIndex))
       => LET P == profilesList[profilesIndex + 1] IN
          /\ currentProfile' = P
          /\ rolesList' = <<>>
          /\ selectedRole' = Nil
          /\ selectedPolicy' = Nil
          /\ loading' = TRUE
          /\ currentScreen' = "roles"
          /\ Emitted = SetToBag({loadIAMRolesCmd(P), loadUserArnCmd(P)})]_vars

C15_Witness ==
    /\ lastMsg = [type |-> "enter", screen |-> "profiles"]
    /\ currentScreen = "roles"
    /\ currentProfile = "dev"
    /\ rolesList = <<>>
    /\ selectedRole = Nil
    /\ selectedPolicy = Nil
    /\ loading
    /\ BagIn(loadIAMRolesCmd("dev"), inflight)
    /\ BagIn(loadUserArnCmd("dev"), inflight)
    /\ Len(policiesList) > 0

C17_BackFromPolicies ==
    [][(currentScreen = "policies" /\ lastMsg'.type = "esc")
       => /\ currentScreen' = "roles"
          /\ selectedPolicy' = Nil
          /\ statusMsg' = NoStatus
          /\ Emitted = EmptyBag
          /\ inflight' = inflight]_vars

C17_Witness ==
    /\ lastMsg = [type |-> "esc", screen |-> "policies"]
    /\ currentScreen = "roles"
    /\ selectedPolicy = Nil
    /\ statusMsg = NoStatus
    /\ \E i \in DOMAIN policiesList : policiesList[i].documentLoaded

\* C18: Enter on the roles, policies or profiles screen while the screen's
\* list has no selected item changes nothing of the state and emits no
\* command.
C18_SelectNothingIsNoop ==
    [][(/\ lastMsg'.type = "enter"
        /\ \/ currentScreen = "roles" /\ ~HasSelectedItem(rolesList, rolesIndex)
           \/ currentScreen = "policies" /\ ~HasSelectedItem(policiesList, policiesIndex)
           \/ currentScreen = "profiles" /\ ~HasSelectedItem(profilesList, profilesIndex))
       => UNCHANGED <<navVars, roleVars, policyVars, profileVars, searchVars, inflight,
                      exit>>]_vars

C18_Witness ==
    /\ lastMsg = [type |-> "enter", screen |-> "profiles"]
    /\ currentScreen = "profiles"
    /\ profilesList = <<>>
    /\ loading
    /\ BagIn(loadAWSProfilesCmd, inflight)

\* C19 as stated: on policy_document the selected role and the selected
\* policy are both non-nil, on policies the selected role is non-nil, and on
\* roles and profiles both are nil.
C19_SelectionsAgreeWithScreen ==
    /\ currentScreen = "policy_document" => (selectedRole # Nil /\ selectedPolicy # Nil)
    /\ currentScreen = "policies" => selectedRole # Nil
    /\ currentScreen \in {"roles", "profiles"} => (selectedRole = Nil /\ selectedPolicy = Nil)

\* C19, amended: on policy_document the selected role and the selected
\* policy are both non-nil, on policies the selected role is non-nil, and a
\* policy is never selected without a role; the roles and the profiles
\* screen keep whatever selection was made before they were entered.
C19_SelectionsWhereRequired ==
    /\ currentScreen = "policy_document" => (selectedRole # Nil /\ selectedPolicy # Nil)
    /\ currentScreen = "policies" => selectedRole # Nil
    /\ selectedPolicy # Nil => selectedRole # Nil

C19_Witness ==
    /\ currentScreen = "profiles"
    /\ lastMsg = [type |-> "p", screen |-> "policy_document"]
    /\ selectedRole # Nil
    /\ selectedPolicy # Nil
    /\ SelectedPolicyItem.documentLoaded

\* The keys whose text is one printable character.
PrintableKeys == Runes \cup {"/", "q", "p"}

\* C20: in search mode on the policy_document screen, a key whose text is
\* one printable character is appended to the query and changes nothing
\* else: not the screen, loading, the match list, nor the commands running.
C20_SearchInputAppends ==
    [][(/\ searchMode
        /\ currentScreen = "policy_document"
        /\ lastMsg'.type \in PrintableKeys
        /\ Len(searchQuery) < MaxQuery)
       => /\ searchQuery' = Append(searchQuery, lastMsg'.type)
          /\ UNCHANGED <<currentScreen, loading, searchMode, searchResults, currentMatch,
                         inflight, exit>>]_vars

\* C21: escape in search mode on the policy_document screen clears the whole
\* search state (mode off, query empty, no matches, current match 0) and
\* stays on the policy_document screen.
C21_CancelClearsSearch ==
    [][(/\ searchMode
        /\ currentScreen = "policy_document"
        /\ lastMsg'.type = "esc")
       => /\ searchMode' = FALSE
          /\ searchQuery' = <<>>
          /\ searchResults' = <<>>
          /\ currentMatch' = 0
          /\ currentScreen' = "policy_document"]_vars

\* The 0-based indices of the lines of doc whose text without colour
\* sequences contains query, letter case ignored.
MatchingLines(doc, query) ==
    {i \in 0..(Len(Lines(doc)) - 1) :
        Contains(ToLower(stripAnsiCodes(Lines(doc)[i + 1])), ToLower(query))}

\* results lists exactly the members of set, in increasing order and once.
ListsInOrder(results, set) ==
    /\ {results[i] : i \in DOMAIN results} = set
    /\ \A i, j \in DOMAIN results : i < j => results[i] < results[j]

\* C22: Enter in search mode on the policy_document screen leaves search
\* mode; with a non-empty query the match list becomes the result of the
\* search on the displayed document, the current match becomes the first
\* result and, when there is a result, the view scrolls to its line (and
\* stays where it is when there is none); with an empty query the match
\* list is empty afterwards.
C22_ConfirmRunsSearch ==
    [][(/\ searchMode
        /\ currentScreen = "policy_document"
        /\ lastMsg'.type = "enter")
       => /\ searchMode' = FALSE
          /\ currentScreen' = "policy_document"
          /\ IF searchQuery # <<>>
             THEN /\ ListsInOrder(searchResults', MatchingLines(policyDocument, searchQuery))
                  /\ currentMatch' = 0
                  /\ IF Len(searchResults') > 0
                     THEN yOffset' = searchResults'[currentMatch' + 1]
                     ELSE yOffset' = yOffset
             ELSE searchResults' = <<>>]_vars

C22_Witness ==
    /\ lastMsg = [type |-> "enter", screen |-> "policy_document"]
    /\ currentScreen = "policy_document"
    /\ ~searchMode
    /\ searchQuery = <<"a">>
    /\ Len(searchResults) = 3
    /\ currentMatch = 0
    /\ yOffset = 1

\* C23: Enter on a policy on the policies screen moves to the
\* policy_document screen with the search state empty (mode off, query
\* empty, no matches, current match 0), whatever it was before.
C23_SelectPolicyResetsSearch ==
    [][(/\ currentScreen = "policies"
        /\ lastMsg'.type = "enter"
        /\ HasSelectedItem(policiesList, policiesIndex))
       => /\ currentScreen' = "policy_document"
          /\ searchMode' = FALSE
          /\ searchQuery' = <<>>
          /\ searchResults' = <<>>
          /\ currentMatch' = 0]_vars

C23_Witness ==
    /\ lastMsg = [type |-> "enter", screen |-> "policies"]
    /\ currentScreen = "policy_document"
    /\ SelectedPolicyItem.policyArn = "a2"
    /\ policyDocument.arn = "a1"
    /\ yOffset = 1
    /\ ~searchMode
    /\ searchQuery = <<>>
    /\ searchResults = <<>>
    /\ currentMatch = 0

\* NextIndex applied k times.
RECURSIVE NextIndexTimes(_, _, _)
NextIndexTimes(i, n, k) == IF k = 0 THEN i ELSE NextIndexTimes(NextIndex(i, n), n, k - 1)

C25_SearchResult ==
    [][(/\ searchMode
        /\ currentScreen = "policy_document"
        /\ lastMsg'.type = "enter"
        /\ searchQuery # <<>>)
       => /\ ListsInOrder(searchResults', MatchingLines(policyDocument, searchQuery))
          /\ searchResults' = MatchesFrom(Lines(policyDocument'), ToLower(searchQuery'), 1)]_vars

C25_Witness ==
    /\ lastMsg = [type |-> "enter", screen |-> "policy_document"]
    /\ policyDocument.text = "colorized"
    /\ searchQuery = <<"A", "a">>
    /\ searchResults = <<1>>

\* C26: a policyDocumentLoadedMsg whose text is not JSON leaves the program
\* running with the text "Error parsing JSON" displayed and cached on the
\* selected policy, the error slot and the screen unchanged and loading
\* false; escape on the policy_document screen then leads to the policies
\* screen.
C26_UnparsableDocumentShownInline ==
    [][/\ (/\ lastMsg'.type = "policyDocumentLoadedMsg"
           /\ policyDocument'.text # "colorized")
          => /\ exit' = "running"
             /\ policyDocument'.text = "Error parsing JSON"
             /\ selectedPolicy' # Nil
             /\ SelectedPolicyItem'.policyDocument = policyDocument'
             /\ SelectedPolicyItem'.documentLoaded
             /\ err' = err
             /\ loading' = FALSE
             /\ currentScreen' = currentScreen
       /\ (/\ lastMsg.type = "policyDocumentLoadedMsg"
           /\ policyDocument.text = "Error parsing JSON"
           /\ currentScreen = "policy_document"
           /\ lastMsg'.type = "esc")
          => currentScreen' = "policies"]_vars

\* The text has a percent sign that is not followed by two hexadecimal
\* digits.
InvalidEscape(str) ==
    \E i \in DOMAIN str :
        /\ str[i] = "%"
        /\ ~(i + 2 <= Len(str) /\ IsHex(str[i + 1]) /\ IsHex(str[i + 2]))

\* C27: when the fetched document has an invalid escape, the completion of
\* the document fetch is an errorMsg: the error slot is set and no document
\* is displayed, stored or marked loaded.
C27_DecodeFailureIsError ==
    (/\ call.fn = "fetchDocument"
     /\ inflight = EmptyBag
     /\ InvalidEscape(call.in))
    => /\ lastMsg.type = "errorMsg"
       /\ err # NoErr
       /\ ~loading
       /\ policyDocument = EmptyDoc
       /\ \A i \in DOMAIN policiesList :
             /\ ~policiesList[i].documentLoaded
             /\ policiesList[i].policyDocument = EmptyDoc

C27_Witness ==
    /\ call.fn = "fetchDocument"
    /\ call.in = <<"Z", "%", "Z", "Z">>
    /\ inflight = EmptyBag
    /\ lastMsg.type = "errorMsg"
    /\ err # NoErr

\* C28: decoding the encoding of a text gives the text and no error; a plus
\* sign decodes to a space, the empty text to the empty text, and a text
\* with an invalid escape gives an error and the empty text.
C28_DecodeInvertsEncode ==
    /\ (call.fn = "roundtrip" /\ call.done)
       => call.out = [value |-> call.in, err |-> FALSE]
    /\ (call.fn = "decode" /\ call.done)
       => /\ call.in = <<>> => call.out = [value |-> <<>>, err |-> FALSE]
          /\ call.in = <<"+">> => call.out = [value |-> <<" ">>, err |-> FALSE]
          /\ InvalidEscape(call.in) <=> call.out.err
          /\ call.out.err => call.out.value = <<>>

C28_Witness ==
    /\ call.fn = "roundtrip"
    /\ call.done
    /\ call.in = <<" ", "+", "%">>
    /\ call.out = [value |-> <<" ", "+", "%">>, err |-> FALSE]

\* The lines of a text, split at its line breaks.
RECURSIVE SplitLines(_, _, _)
SplitLines(text, i, line) ==
    IF i > Len(text) THEN <<line>>
    ELSE IF text[i] = "\n" THEN <<line>> \o SplitLines(text, i + 1, <<>>)
         ELSE SplitLines(text, i + 1, Append(line, text[i]))

\* C29: for a width above 0 and a non-empty text the wrapped text has
\* exactly the words of the text, in order, and every line of it is at most
\* width long unless it is one word; for a width of 0 or less, or the empty
\* text, wordWrap returns the text itself.
C29_WordWrap ==
    (call.fn = "wordWrap" /\ call.done)
    => IF call.width <= 0 \/ call.in = <<>>
       THEN call.out = call.in
       ELSE /\ Fields(call.out) = Fields(call.in)
            /\ LET lines == SplitLines(call.out, 1, <<>>) IN
               \A i \in DOMAIN lines :
                   \/ Len(lines[i]) <= call.width
                   \/ \A j \in DOMAIN lines[i] : lines[i][j] # " "

C29_Witness ==
    /\ call.fn = "wordWrap"
    /\ call.done
    /\ call.width = 3
    /\ call.in = <<"a", "a", " ", "a", "\n">>
    /\ call.out = <<"a", "a", "\n", "a">>

\* C30: removing the colour sequences from a colourised text gives the text
\* that was colourised, character for character (so it parses to the same
\* value); the colour codes are the default ones, made of digits.
C30_ColorizeOnlyInserts ==
    (call.fn = "colorize" /\ call.done) => stripAnsiCodes(call.out) = call.in

C30_Witness ==
    /\ call.fn = "colorize"
    /\ call.done
    /\ call.in = <<"\"", "k", ":", "k", "\"", ":">>
    /\ Len(call.out) = Len(call.in) + 4
    /\ stripAnsiCodes(call.out) = call.in

\* C31: a window size message, on any screen and whether loading or not,
\* records the new width and height, sets the height of the three lists and
\* of the document view to the new height minus 9, returns no command and
\* leaves the screen, the selections, loading and the error as they were.
C31_ResizeOnlyResizes ==
    [][lastMsg'.type = "WindowSizeMsg"
       => /\ \E size \in WindowSizes :
               /\ width' = size.width
               /\ height' = size.height
          /\ \A l \in {"roles", "policies", "profiles"} : listHeight'[l] = height' - 9
          /\ viewHeight' = height' - 9
          /\ inflight' = inflight
          /\ UNCHANGED <<currentScreen, selectedRole, selectedPolicy, loading, err, exit>>]_vars

C31_Witness ==
    /\ lastMsg = [type |-> "WindowSizeMsg", screen |-> "policy_document"]
    /\ currentScreen = "policy_document"
    /\ loading
    /\ selectedPolicy # Nil
    /\ width = 80
    /\ height = 11
    /\ viewHeight = 2
    /\ listHeight = [l \in ListNames |-> 2]

\* C32: whenever a policyDocumentLoadedMsg is processed, the selected
\* policy is not nil.
C32_DocumentHandlerHasSelection ==
    [][lastMsg'.type = "policyDocumentLoadedMsg" => selectedPolicy # Nil]_vars

\* The commands that fetch roles, policies, a document or the profile list.
FetchCmds ==
    {"loadIAMRoles", "loadRolePolicies", "loadPolicyDocument", "loadAWSProfiles",
     "loadCurrentProfile"}

\* A fetch has been emitted and its message has not been processed.
FetchOutstanding == \E c \in BagToSet(inflight) : c.cmd \in FetchCmds

\* C33: in every state of the running program in which a fetch of roles,
\* policies, a document or the profile list is outstanding, loading is true.
C33_OutstandingFetchMeansLoading ==
    (exit = "running" /\ FetchOutstanding) => loading

\* C34: when every command completes and the keys stop, every state in which
\* loading is true is followed by one in which it is false (unless the user
\* quit and a fetch was thereby left undelivered), and loading is true in
\* no state of the running program without an outstanding fetch.
C34_LoadingEnds ==
    /\ loading ~> (~loading \/ exit = "quit")
    /\ []((loading /\ exit = "running") => FetchOutstanding)

\* C35: after a profile was selected on the profiles screen, the active
\* profile is the one selected last, in every later state.
C35_ActiveProfileStays ==
    switchedTo # "" => currentProfile = switchedTo

\* C36: every fetch of roles, of the identity, of policies and of a document
\* emitted after a profile was selected reads from the active profile.
C36_FetchesUseActiveProfile ==
    [][switchedTo' # ""
       => \A c \in BagToSet(Emitted) :
             c.cmd \in {"loadIAMRoles", "loadUserArn", "loadRolePolicies", "loadPolicyDocument"}
             => ProfileOf(c) = currentProfile']_vars

\* C37: on the policies screen a role is selected, and on the
\* policy_document screen a policy is selected.
C37_ScreenHasItsSelection ==
    /\ currentScreen = "policies" => selectedRole # Nil
    /\ currentScreen = "policy_document" => selectedPolicy # Nil

C37_Witness ==
    /\ currentScreen = "policy_document"
    /\ lastMsg = [type |-> "enter", screen |-> "policies"]
    /\ ~loading
    /\ selectedRole # Nil
    /\ selectedPolicy # Nil
    /\ SelectedPolicyItem.policyArn = "a2"
    /\ SelectedPolicyItem.documentLoaded

\* C38: every index of the match list is a line index of the displayed
\* document, and that line contains the query, letter case and colour
\* sequences ignored.
C38_MatchesAreLinesOfDocument ==
    \A i \in DOMAIN searchResults :
        /\ searchResults[i] \in 0..(Len(Lines(policyDocument)) - 1)
        /\ searchResults[i] \in MatchingLines(policyDocument, searchQuery)

\* C39: the current match is an index of the match list when the list is
\* not empty, and 0 when it is empty.
C39_CurrentMatchInList ==
    IF searchResults = <<>>
    THEN currentMatch = 0
    ELSE currentMatch \in 0..(Len(searchResults) - 1)

C39_Witness ==
    /\ lastMsg = [type |-> "n", screen |-> "policy_document"]
    /\ Len(searchResults) = 3
    /\ currentMatch = 2

\* C40: the scroll offset of the document is at least 0 and at most
\* max(0, lines - view height).
C40_ScrollOffsetInRange ==
    /\ yOffset >= 0
    /\ yOffset <= IF Len(Lines(policyDocument)) - viewHeight > 0
                  THEN Len(Lines(policyDocument)) - viewHeight
                  ELSE 0

====
